---- MODULE Spec2Model ----
(***************************************************************************)
(* Model of the sps download coordinator (sps/src/pipeline/downloader.rs)  *)
(* and of the terminal status monitor (sps/src/cli/status.rs).             *)
(*                                                                         *)
(* Spec     : DownloadCoordinator::coordinate_downloads, its spawned tasks,*)
(*            the broadcast event bus it writes and the bounded outcome    *)
(*            channel it feeds.                                            *)
(* MonSpec  : handle_events and StatusDisplay, driven by the results of    *)
(*            event_rx.recv() and by the refresh timer.                    *)
(***************************************************************************)
EXTENDS Integers, Sequences, FiniteSets, TLC

\* ------------------------------------------------------------------ bounds
\* Largest number of progress-callback invocations of one fetch.
MaxProgress == 1
\* Capacity of the mpsc outcome channel (chosen by the caller).
OutcomeCap == 1
\* Capacity of the broadcast event bus (chosen by the caller).
BusCap == 1
\* Largest byte count carried by an event (size_bytes, bytes_so_far, total_size).
MaxSize == 1
\* Events that would take total_bytes past this value are not delivered.
MaxTotalBytes == 2
\* Events that would take logs_buffer past this length are not delivered.
MaxLogs == 2
\* Largest total_jobs carried by a PipelineStarted event of RenderSpec.
MaxTotalJobs == 1
\* FmtSpec calls the formatting functions on every argument within this
\* distance of a unit step or of a value the documentation names.
FmtRadius == 60

\* ------------------------------------------------------- coordinator state
VARIABLES
    event_tx,               \* DownloadCoordinator.event_tx: "Some" | "None"
    co_pc,                  \* coordinate_downloads: "idle" | "spawning" | "joining" | "returned"
    planned_jobs,           \* the planned_jobs argument (a sequence of PlannedJob)
    tasks,                  \* the JoinSet: one record per spawned task
    joined,                 \* indices of the tasks join_next has already returned
    critical_spawn_errors,  \* the list coordinate_downloads returns
    outcome_chan,           \* mpsc channel buffer of DownloadOutcome
    rx_open,                \* the downstream receiver is still alive
    received,               \* outcomes the downstream stage has taken
    subscribers,            \* live broadcast receivers of the event bus
    bus_buf,                \* events retained by the bus for its receiver
    bus_lagged,             \* the bus has overwritten an unread event
    emitted,                \* per task: the event kinds it handed to tx.send
    sent_ok                 \* per task: outcome_tx.send returned Ok

coordVars == <<event_tx, co_pc, planned_jobs, tasks, joined, critical_spawn_errors,
               outcome_chan, rx_open, received, subscribers, bus_buf, bus_lagged,
               emitted, sent_ok>>

\* ----------------------------------------------------------- monitor state
VARIABLES
    display,         \* the StatusDisplay of handle_events
    logs_buffer,     \* handle_events' logs_buffer: the number of buffered lines
    pipeline_active, \* handle_events' pipeline_active
    mon_pc,          \* the loop: "running" | "finished" | "closed" | "panicked"
    term             \* the terminal: lines printed / erased by the last redraw

monVars == <<display, logs_buffer, pipeline_active, mon_pc, term>>

\* ------------------------------------------------- formatting functions
VARIABLES
    fmt_fn,          \* the function called: "none" | "format_bytes" | "format_speed"
    fmt_arg,         \* its argument
    fmt_ret          \* the String it returned ("" before the call)

fmtVars == <<fmt_fn, fmt_arg, fmt_ret>>

vars == <<coordVars, monVars, fmtVars>>

\* ------------------------------------------------------------ planned jobs
\* PlannedJob: use_private_store_source is "None" or a path; target is the
\* InstallTargetIdentifier variant; url is Formula.url; bottle is the url of
\* get_bottle_for_platform's spec ("Err" when it fails); cask_url is the
\* variant of Cask.url ("None", "Simple", "WithSpec") and cask_str its string.
PlannedJob(priv, target, src, url, bottle, cask_url, cask_str) ==
    [use_private_store_source |-> priv, target |-> target,
     is_source_build |-> src, url |-> url, bottle |-> bottle,
     cask_url |-> cask_url, cask_str |-> cask_str]

JobTemplates ==
    { PlannedJob("/store/x", "Cask",    FALSE, "",    "Err", "None", ""),
      PlannedJob("None",     "Formula", TRUE,  "",    "Err", "None", ""),
      PlannedJob("None",     "Formula", FALSE, "src", "btl", "None", ""),
      PlannedJob("None",     "Formula", FALSE, "",    "Err", "None", ""),
      PlannedJob("None",     "Cask",    FALSE, "",    "Err", "WithSpec", "cask"),
      PlannedJob("None",     "Cask",    FALSE, "",    "Err", "None",     "") }

\* the planned_jobs arguments tried: no job, one job, two jobs
JobLists ==
    { <<>> } \cup { <<a>> : a \in JobTemplates }
             \cup { <<a, b>> : a \in JobTemplates, b \in JobTemplates }

\* display_url_for_event
DisplayUrl(job) ==
    IF job.target = "Formula"
    THEN IF ~job.is_source_build
         THEN IF job.bottle = "Err" THEN job.url ELSE job.bottle
         ELSE job.url
    ELSE IF job.cask_url = "None" THEN "N/A (No Cask URL)" ELSE job.cask_str

\* mutant: only the missing cask URL is rejected, the empty URL is let through
UrlInvalid_OnlyMissingCask(job) ==
    DisplayUrl(job) = "N/A (No Cask URL)"

\* the validation test guarding the DownloadFailed branch
UrlInvalid(job) ==
    \/ DisplayUrl(job) = "N/A (No Cask URL)"
    \/ (DisplayUrl(job) = "" /\ ~job.is_source_build)

\* ---------------------------------------------------------------- channels
Event(kind, target_id) == [kind |-> kind, target_id |-> target_id]

\* mutant: the bus is a bounded queue whose send waits for room
BusSend_Blocking(e) ==
    IF subscribers = 0
    THEN UNCHANGED <<bus_buf, bus_lagged>>
    ELSE /\ Len(bus_buf) < BusCap
         /\ bus_buf' = Append(bus_buf, e)
         /\ UNCHANGED bus_lagged

\* broadcast::Sender::send: Err (value discarded) without a receiver; otherwise
\* the value is stored and, when the ring is full, the oldest unread value is
\* overwritten and the receiver is marked as lagging.  It never waits.
BusSend(e) ==
    IF subscribers = 0
    THEN UNCHANGED <<bus_buf, bus_lagged>>
    ELSE IF Len(bus_buf) < BusCap
         THEN bus_buf' = Append(bus_buf, e) /\ UNCHANGED bus_lagged
         ELSE bus_buf' = Append(Tail(bus_buf), e) /\ bus_lagged' = TRUE

\* `if let Some(ref tx) = task_event_tx { tx.send(event).ok(); }` by task i
Emit(i, kind) ==
    IF tasks[i].task_event_tx = "Some"
    THEN /\ BusSend(Event(kind, i))
         /\ emitted' = [emitted EXCEPT ![i] = Append(@, kind)]
    ELSE UNCHANGED <<bus_buf, bus_lagged, emitted>>

\* ------------------------------------------------------------- coordinator
CoordInit ==
    /\ event_tx = "Some"
    /\ co_pc = "idle"
    /\ planned_jobs = <<>>
    /\ tasks = <<>>
    /\ joined = {}
    /\ critical_spawn_errors = <<>>
    /\ outcome_chan = <<>>
    /\ rx_open = TRUE
    /\ received = {}
    /\ subscribers = 1
    /\ bus_buf = <<>>
    /\ bus_lagged = FALSE
    /\ emitted = <<>>
    /\ sent_ok = <<>>

\* coordinate_downloads is entered with its planned_jobs argument
Call(jobs) ==
    /\ co_pc = "idle"
    /\ planned_jobs' = jobs
    /\ co_pc' = "spawning"
    /\ UNCHANGED <<monVars, fmtVars>>
    /\ UNCHANGED <<event_tx, tasks, joined, critical_spawn_errors, outcome_chan,
                   rx_open, received, subscribers, bus_buf, bus_lagged, emitted, sent_ok>>

\* one iteration of `for planned_job in planned_jobs`: download_tasks.spawn
Spawn ==
    /\ co_pc = "spawning"
    /\ Len(tasks) < Len(planned_jobs)
    /\ tasks' = Append(tasks,
                  [pc |-> "start",
                   job |-> planned_jobs[Len(tasks) + 1],
                   task_event_tx |-> event_tx,
                   result |-> <<"unset">>,
                   fetch |-> "none",
                   progress |-> 0])
    /\ emitted' = Append(emitted, <<>>)
    /\ sent_ok' = Append(sent_ok, FALSE)
    /\ UNCHANGED <<monVars, fmtVars>>
    /\ UNCHANGED <<event_tx, co_pc, planned_jobs, joined, critical_spawn_errors,
                   outcome_chan, rx_open, received, subscribers, bus_buf, bus_lagged>>

\* the for loop is exhausted; the join loop starts
SpawnDone ==
    /\ co_pc = "spawning"
    /\ Len(tasks) = Len(planned_jobs)
    /\ co_pc' = "joining"
    /\ UNCHANGED <<monVars, fmtVars>>
    /\ UNCHANGED <<event_tx, planned_jobs, tasks, joined, critical_spawn_errors,
                   outcome_chan, rx_open, received, subscribers, bus_buf, bus_lagged,
                   emitted, sent_ok>>

TaskIds == 1..Len(tasks)

\* mutant: the private-store override is not looked at
TaskStart_NoPrivateCheck(i) ==
    /\ tasks[i].pc = "start"
    /\ LET job == tasks[i].job IN
       IF UrlInvalid(job)
       THEN /\ Emit(i, "DownloadFailed")
            /\ tasks' = [tasks EXCEPT ![i].pc = "send", ![i].result = <<"Err", "Generic">>]
       ELSE /\ Emit(i, "DownloadStarted")
            /\ tasks' = [tasks EXCEPT ![i].pc = "fetching", ![i].fetch = "running"]
    /\ UNCHANGED <<monVars, fmtVars>>
    /\ UNCHANGED <<event_tx, co_pc, planned_jobs, joined, critical_spawn_errors,
                   outcome_chan, rx_open, received, subscribers, sent_ok>>

\* mutant: a task starts only while the outcome channel has room
TaskStart_WaitsForChannel(i) ==
    /\ tasks[i].pc = "start"
    /\ Len(outcome_chan) < OutcomeCap
    /\ LET job == tasks[i].job IN
       IF job.use_private_store_source # "None"
       THEN /\ tasks' = [tasks EXCEPT ![i].pc = "send",
                                      ![i].result = <<"Ok", job.use_private_store_source>>]
            /\ UNCHANGED <<bus_buf, bus_lagged, emitted>>
       ELSE IF UrlInvalid(job)
       THEN /\ Emit(i, "DownloadFailed")
            /\ tasks' = [tasks EXCEPT ![i].pc = "send", ![i].result = <<"Err", "Generic">>]
       ELSE /\ Emit(i, "DownloadStarted")
            /\ tasks' = [tasks EXCEPT ![i].pc = "fetching", ![i].fetch = "running"]
    /\ UNCHANGED <<monVars, fmtVars>>
    /\ UNCHANGED <<event_tx, co_pc, planned_jobs, joined, critical_spawn_errors,
                   outcome_chan, rx_open, received, subscribers, sent_ok>>

\* the task body up to its first await: private store, validation failure, or
\* DownloadStarted followed by the call of the fetch operation
TaskStart(i) ==
    /\ tasks[i].pc = "start"
    /\ LET job == tasks[i].job IN
       IF job.use_private_store_source # "None"
       THEN /\ tasks' = [tasks EXCEPT ![i].pc = "send",
                                      ![i].result = <<"Ok", job.use_private_store_source>>]
            /\ UNCHANGED <<bus_buf, bus_lagged, emitted>>
       ELSE IF UrlInvalid(job)
       THEN /\ Emit(i, "DownloadFailed")
            /\ tasks' = [tasks EXCEPT ![i].pc = "send", ![i].result = <<"Err", "Generic">>]
       ELSE /\ Emit(i, "DownloadStarted")
            /\ tasks' = [tasks EXCEPT ![i].pc = "fetching", ![i].fetch = "running"]
    /\ UNCHANGED <<monVars, fmtVars>>
    /\ UNCHANGED <<event_tx, co_pc, planned_jobs, joined, critical_spawn_errors,
                   outcome_chan, rx_open, received, subscribers, sent_ok>>

\* the fetch operation invokes progress_callback (None when there is no sender)
FetchProgress(i) ==
    /\ tasks[i].pc = "fetching"
    /\ tasks[i].progress < MaxProgress
    /\ tasks[i].task_event_tx = "Some"
    /\ Emit(i, "DownloadProgressUpdate")
    /\ tasks' = [tasks EXCEPT ![i].progress = @ + 1]
    /\ UNCHANGED <<monVars, fmtVars>>
    /\ UNCHANGED <<event_tx, co_pc, planned_jobs, joined, critical_spawn_errors,
                   outcome_chan, rx_open, received, subscribers, sent_ok>>

\* was_cached can be true only for the bottle fetch; the two others map to false
CanBeCached(job) == job.target = "Formula" /\ ~job.is_source_build

\* the fetch returns Ok((path, was_cached))
FetchOk(i, was_cached) ==
    /\ tasks[i].pc = "fetching"
    /\ was_cached => CanBeCached(tasks[i].job)
    /\ Emit(i, IF was_cached THEN "DownloadCached" ELSE "DownloadFinished")
    /\ tasks' = [tasks EXCEPT ![i].pc = "send", ![i].fetch = "ok",
                              ![i].result = <<"Ok", "/cache/path">>]
    /\ UNCHANGED <<monVars, fmtVars>>
    /\ UNCHANGED <<event_tx, co_pc, planned_jobs, joined, critical_spawn_errors,
                   outcome_chan, rx_open, received, subscribers, sent_ok>>

\* mutant: a transport error is not announced on the bus
FetchErr_Silent(i) ==
    /\ tasks[i].pc = "fetching"
    /\ tasks' = [tasks EXCEPT ![i].pc = "send", ![i].fetch = "err",
                              ![i].result = <<"Err", "Transport">>]
    /\ UNCHANGED <<monVars, fmtVars>>
    /\ UNCHANGED <<event_tx, co_pc, planned_jobs, joined, critical_spawn_errors,
                   outcome_chan, rx_open, received, subscribers, sent_ok,
                   bus_buf, bus_lagged, emitted>>

\* the fetch returns Err(e)
FetchErr(i) ==
    /\ tasks[i].pc = "fetching"
    /\ Emit(i, "DownloadFailed")
    /\ tasks' = [tasks EXCEPT ![i].pc = "send", ![i].fetch = "err",
                              ![i].result = <<"Err", "Transport">>]
    /\ UNCHANGED <<monVars, fmtVars>>
    /\ UNCHANGED <<event_tx, co_pc, planned_jobs, joined, critical_spawn_errors,
                   outcome_chan, rx_open, received, subscribers, sent_ok>>

\* the fetch operation panics: the task ends without reaching the send
FetchPanic(i) ==
    /\ tasks[i].pc = "fetching"
    /\ tasks' = [tasks EXCEPT ![i].pc = "panicked", ![i].fetch = "panic"]
    /\ UNCHANGED <<monVars, fmtVars>>
    /\ UNCHANGED <<event_tx, co_pc, planned_jobs, joined, critical_spawn_errors,
                   outcome_chan, rx_open, received, subscribers, bus_buf, bus_lagged,
                   emitted, sent_ok>>

Outcome(i) == [planned_job |-> tasks[i].job, target_id |-> i, result |-> tasks[i].result]

\* outcome_tx_clone.send(outcome).await returns Ok: waits while the channel is full
SendOutcome(i) ==
    /\ tasks[i].pc = "send"
    /\ rx_open
    /\ Len(outcome_chan) < OutcomeCap
    /\ outcome_chan' = Append(outcome_chan, Outcome(i))
    /\ sent_ok' = [sent_ok EXCEPT ![i] = TRUE]
    /\ tasks' = [tasks EXCEPT ![i].pc = "done"]
    /\ UNCHANGED <<monVars, fmtVars>>
    /\ UNCHANGED <<event_tx, co_pc, planned_jobs, joined, critical_spawn_errors,
                   rx_open, received, subscribers, bus_buf, bus_lagged, emitted>>

\* mutant: a failed send of the outcome panics the task
SendFailed_Panics(i) ==
    /\ tasks[i].pc = "send"
    /\ ~rx_open
    /\ tasks' = [tasks EXCEPT ![i].pc = "panicked"]
    /\ UNCHANGED <<monVars, fmtVars>>
    /\ UNCHANGED <<event_tx, co_pc, planned_jobs, joined, critical_spawn_errors,
                   outcome_chan, rx_open, received, subscribers, bus_buf, bus_lagged,
                   emitted, sent_ok>>

\* outcome_tx_clone.send(outcome).await returns Err: the receiver is gone
SendFailed(i) ==
    /\ tasks[i].pc = "send"
    /\ ~rx_open
    /\ tasks' = [tasks EXCEPT ![i].pc = "done"]
    /\ UNCHANGED <<monVars, fmtVars>>
    /\ UNCHANGED <<event_tx, co_pc, planned_jobs, joined, critical_spawn_errors,
                   outcome_chan, rx_open, received, subscribers, bus_buf, bus_lagged,
                   emitted, sent_ok>>

\* mutant: a panicked task is joined without an entry in the returned list
JoinNext_DropsPanic(i) ==
    /\ co_pc = "joining"
    /\ i \notin joined
    /\ tasks[i].pc \in {"done", "panicked"}
    /\ joined' = joined \cup {i}
    /\ UNCHANGED <<monVars, fmtVars>>
    /\ UNCHANGED <<event_tx, co_pc, planned_jobs, tasks, outcome_chan, rx_open,
                   received, subscribers, bus_buf, bus_lagged, emitted, sent_ok,
                   critical_spawn_errors>>

\* mutant: a task that returned with an Err result is reported like a panic
JoinNext_ErrAsPanic(i) ==
    /\ co_pc = "joining"
    /\ i \notin joined
    /\ tasks[i].pc \in {"done", "panicked"}
    /\ joined' = joined \cup {i}
    /\ critical_spawn_errors' =
         IF tasks[i].pc = "panicked" \/ tasks[i].result[1] = "Err"
         THEN Append(critical_spawn_errors, "[UnknownDownloadTaskPanic]")
         ELSE critical_spawn_errors
    /\ UNCHANGED <<monVars, fmtVars>>
    /\ UNCHANGED <<event_tx, co_pc, planned_jobs, tasks, outcome_chan, rx_open,
                   received, subscribers, bus_buf, bus_lagged, emitted, sent_ok>>

\* one iteration of `while let Some(join_result) = download_tasks.join_next().await`
JoinNext(i) ==
    /\ co_pc = "joining"
    /\ i \notin joined
    /\ tasks[i].pc \in {"done", "panicked"}
    /\ joined' = joined \cup {i}
    /\ critical_spawn_errors' =
         IF tasks[i].pc = "panicked"
         THEN Append(critical_spawn_errors, "[UnknownDownloadTaskPanic]")
         ELSE critical_spawn_errors
    /\ UNCHANGED <<monVars, fmtVars>>
    /\ UNCHANGED <<event_tx, co_pc, planned_jobs, tasks, outcome_chan, rx_open,
                   received, subscribers, bus_buf, bus_lagged, emitted, sent_ok>>

\* join_next returns None: self.event_tx = None; return critical_spawn_errors
Return ==
    /\ co_pc = "joining"
    /\ joined = TaskIds
    /\ event_tx' = "None"
    /\ co_pc' = "returned"
    /\ UNCHANGED <<monVars, fmtVars>>
    /\ UNCHANGED <<planned_jobs, tasks, joined, critical_spawn_errors, outcome_chan,
                   rx_open, received, subscribers, bus_buf, bus_lagged, emitted, sent_ok>>

\* ------------------------------------------------- the coordinator's peers
\* mutant: the downstream stage reads the oldest outcome and leaves it in the channel
RxRecv_Peek ==
    /\ rx_open
    /\ outcome_chan # <<>>
    /\ received' = received \cup {Head(outcome_chan)}
    /\ UNCHANGED <<monVars, fmtVars>>
    /\ UNCHANGED <<event_tx, co_pc, planned_jobs, tasks, joined, critical_spawn_errors,
                   rx_open, subscribers, bus_buf, bus_lagged, emitted, sent_ok, outcome_chan>>

\* the downstream stage takes one outcome from the channel
RxRecv ==
    /\ rx_open
    /\ outcome_chan # <<>>
    /\ received' = received \cup {Head(outcome_chan)}
    /\ outcome_chan' = Tail(outcome_chan)
    /\ UNCHANGED <<monVars, fmtVars>>
    /\ UNCHANGED <<event_tx, co_pc, planned_jobs, tasks, joined, critical_spawn_errors,
                   rx_open, subscribers, bus_buf, bus_lagged, emitted, sent_ok>>

\* the downstream stage drops its receiver
RxClose ==
    /\ rx_open
    /\ rx_open' = FALSE
    /\ UNCHANGED <<monVars, fmtVars>>
    /\ UNCHANGED <<event_tx, co_pc, planned_jobs, tasks, joined, critical_spawn_errors,
                   outcome_chan, received, subscribers, bus_buf, bus_lagged, emitted, sent_ok>>

\* a bus subscriber takes the oldest retained event
BusRecv ==
    /\ subscribers > 0
    /\ bus_buf # <<>>
    /\ bus_buf' = Tail(bus_buf)
    /\ UNCHANGED <<monVars, fmtVars>>
    /\ UNCHANGED <<event_tx, co_pc, planned_jobs, tasks, joined, critical_spawn_errors,
                   outcome_chan, rx_open, received, subscribers, bus_lagged, emitted, sent_ok>>

\* the last bus subscriber goes away
BusUnsubscribe ==
    /\ subscribers > 0
    /\ subscribers' = subscribers - 1
    /\ bus_buf' = <<>>
    /\ UNCHANGED <<monVars, fmtVars>>
    /\ UNCHANGED <<event_tx, co_pc, planned_jobs, tasks, joined, critical_spawn_errors,
                   outcome_chan, rx_open, received, bus_lagged, emitted, sent_ok>>

\* ================================================================ monitor
\* Option<T>: None is the empty tuple, Some(v) the one-element tuple
None == <<>>
Some(v) == <<v>>
IsSome(o) == o # <<>>

\* the target ids events refer to
TargetIds == {"a", "b"}

\* the speed window of update_speed, 0.0625 s, is the unit of a time sample:
\* a sample td is the time since last_speed_update in windows, 0 standing for
\* any time shorter than one window
WindowsPerSecond == 16
TimeSamples == {0}

Sizes == 0..MaxSize
\* bytes_so_far values MonSpec delivers (the byte counter feeds update_speed only)
MonProgressBytes == {0}
OptSizes == {None} \cup { Some(n) : n \in Sizes }

\* StatusDisplay::new
StatusDisplay_new ==
    [jobs |-> [t \in {} |-> None],
     job_order |-> <<>>,
     total_jobs |-> 0,
     next_pool_id |-> 1,
     active_downloads |-> {},
     total_bytes |-> 0,
     downloaded_bytes |-> 0,
     last_speed_update |-> 0,
     last_aggregate_bytes_snapshot |-> 0,
     current_speed_bps |-> 0,
     header_printed |-> FALSE,
     last_line_count |-> 0]

\* u64::saturating_sub
saturating_sub(x, y) == IF x >= y THEN x - y ELSE 0

\* mutant: the contains_key test is missing, a known job is inserted again
add_job_NoContainsCheck(d, target_id, status, size_bytes) ==
    LET job_info ==
            [name |-> target_id,
             status |-> status,
             size_bytes |-> size_bytes,
             current_bytes_downloaded |->
                 IF status = "Downloading" THEN Some(0) ELSE None,
             start_time |-> (status # "Waiting"),
             pool_id |-> d.next_pool_id]
    IN  [d EXCEPT
           !.total_bytes = IF IsSome(size_bytes) THEN @ + size_bytes[1] ELSE @,
           !.active_downloads =
               IF status = "Downloading" THEN @ \cup {target_id} ELSE @,
           !.jobs = (target_id :> job_info) @@ @,
           !.job_order = Append(@, target_id),
           !.next_pool_id = @ + 1]

\* StatusDisplay::add_job
add_job(d, target_id, status, size_bytes) ==
    IF target_id \in DOMAIN d.jobs
    THEN d
    ELSE LET job_info ==
                 [name |-> target_id,
                  status |-> status,
                  size_bytes |-> size_bytes,
                  current_bytes_downloaded |->
                      IF status = "Downloading" THEN Some(0) ELSE None,
                  start_time |-> (status # "Waiting"),
                  pool_id |-> d.next_pool_id]
         IN  [d EXCEPT
                !.total_bytes = IF IsSome(size_bytes) THEN @ + size_bytes[1] ELSE @,
                !.active_downloads =
                    IF status = "Downloading" THEN @ \cup {target_id} ELSE @,
                !.jobs = (target_id :> job_info) @@ @,
                !.job_order = Append(@, target_id),
                !.next_pool_id = @ + 1]

\* mutant: a job that leaves Downloading stays in active_downloads
update_job_status_KeepsActive(d, target_id, status, size_bytes) ==
    IF target_id \notin DOMAIN d.jobs
    THEN d
    ELSE LET job == d.jobs[target_id]
             was_downloading == job.status = "Downloading"
             is_downloading == status = "Downloading"
             new_size == IF IsSome(size_bytes) THEN size_bytes ELSE job.size_bytes
             leaving == was_downloading /\ ~is_downloading
             entering == ~was_downloading /\ is_downloading
         IN  [d EXCEPT
                !.jobs[target_id] =
                    [job EXCEPT
                       !.status = status,
                       !.start_time = (@ \/ status # "Waiting"),
                       !.size_bytes = new_size,
                       !.current_bytes_downloaded =
                           IF leaving /\ IsSome(new_size) THEN new_size
                           ELSE IF entering THEN Some(0)
                           ELSE @],
                !.total_bytes =
                    IF IsSome(size_bytes) /\ ~IsSome(job.size_bytes)
                    THEN @ + size_bytes[1] ELSE @,
                !.active_downloads =
                    IF entering THEN @ \cup {target_id} ELSE @,
                !.downloaded_bytes =
                    IF leaving /\ IsSome(new_size) THEN @ + new_size[1] ELSE @]

\* mutant: on leaving Downloading the size the job had before the event is rolled in
update_job_status_RollsOldSize(d, target_id, status, size_bytes) ==
    IF target_id \notin DOMAIN d.jobs
    THEN d
    ELSE LET job == d.jobs[target_id]
             was_downloading == job.status = "Downloading"
             is_downloading == status = "Downloading"
             new_size == IF IsSome(size_bytes) THEN size_bytes ELSE job.size_bytes
             leaving == was_downloading /\ ~is_downloading
             entering == ~was_downloading /\ is_downloading
         IN  [d EXCEPT
                !.jobs[target_id] =
                    [job EXCEPT
                       !.status = status,
                       !.start_time = (@ \/ status # "Waiting"),
                       !.size_bytes = new_size,
                       !.current_bytes_downloaded =
                           IF leaving /\ IsSome(new_size) THEN new_size
                           ELSE IF entering THEN Some(0)
                           ELSE @],
                !.total_bytes =
                    IF IsSome(size_bytes) /\ ~IsSome(job.size_bytes)
                    THEN @ + size_bytes[1] ELSE @,
                !.active_downloads =
                    IF leaving THEN @ \ {target_id}
                    ELSE IF entering THEN @ \cup {target_id}
                    ELSE @,
                !.downloaded_bytes =
                    IF leaving /\ IsSome(job.size_bytes) THEN @ + job.size_bytes[1] ELSE @]

\* StatusDisplay::update_job_status
update_job_status(d, target_id, status, size_bytes) ==
    IF target_id \notin DOMAIN d.jobs
    THEN d
    ELSE LET job == d.jobs[target_id]
             was_downloading == job.status = "Downloading"
             is_downloading == status = "Downloading"
             new_size == IF IsSome(size_bytes) THEN size_bytes ELSE job.size_bytes
             leaving == was_downloading /\ ~is_downloading
             entering == ~was_downloading /\ is_downloading
         IN  [d EXCEPT
                !.jobs[target_id] =
                    [job EXCEPT
                       !.status = status,
                       !.start_time = (@ \/ status # "Waiting"),
                       !.size_bytes = new_size,
                       !.current_bytes_downloaded =
                           IF leaving /\ IsSome(new_size) THEN new_size
                           ELSE IF entering THEN Some(0)
                           ELSE @],
                !.total_bytes =
                    IF IsSome(size_bytes) /\ ~IsSome(job.size_bytes)
                    THEN @ + size_bytes[1] ELSE @,
                !.active_downloads =
                    IF leaving THEN @ \ {target_id}
                    ELSE IF entering THEN @ \cup {target_id}
                    ELSE @,
                !.downloaded_bytes =
                    IF leaving /\ IsSome(new_size) THEN @ + new_size[1] ELSE @]

\* StatusDisplay::update_download_progress
update_download_progress(d, target_id, bytes_so_far, total_size) ==
    IF target_id \notin DOMAIN d.jobs
    THEN d
    ELSE LET job == d.jobs[target_id] IN
         [d EXCEPT
            !.jobs[target_id] =
                [job EXCEPT
                   !.current_bytes_downloaded = Some(bytes_so_far),
                   !.size_bytes =
                       IF IsSome(total_size) /\ @ # total_size THEN total_size ELSE @],
            !.total_bytes =
                IF ~IsSome(total_size) THEN @
                ELSE IF ~IsSome(job.size_bytes) THEN @ + total_size[1]
                ELSE IF job.size_bytes # total_size
                     THEN saturating_sub(@, job.size_bytes[1]) + total_size[1]
                ELSE @]

RECURSIVE SumOver(_, _)
SumOver(f, S) ==
    IF S = {} THEN 0
    ELSE LET x == CHOOSE y \in S : TRUE IN f[x] + SumOver(f, S \ {x})

Downloading(d) == { t \in DOMAIN d.jobs : d.jobs[t].status = "Downloading" }

\* mutant: without new bytes the rate drops to zero even while jobs download
update_speed_DropsToZero(d, td) ==
    IF td >= 1
    THEN LET bytes == [t \in Downloading(d) |->
                          IF IsSome(d.jobs[t].current_bytes_downloaded)
                          THEN d.jobs[t].current_bytes_downloaded[1] ELSE 0]
             current_active_bytes == SumOver(bytes, Downloading(d))
             bytes_diff ==
                 saturating_sub(current_active_bytes, d.last_aggregate_bytes_snapshot)
         IN  [d EXCEPT
                !.current_speed_bps =
                    IF td > 0 /\ bytes_diff > 0
                    THEN (bytes_diff * WindowsPerSecond) \div td
                    ELSE 0,
                !.last_speed_update = 1 - @,
                !.last_aggregate_bytes_snapshot = current_active_bytes]
    ELSE d

\* StatusDisplay::update_speed, with time_diff = td windows; last_speed_update
\* is kept modulo 2: `now` is later than the Instant it replaces, so the
\* field changes exactly when it is written
update_speed(d, td) ==
    IF td >= 1
    THEN LET bytes == [t \in Downloading(d) |->
                          IF IsSome(d.jobs[t].current_bytes_downloaded)
                          THEN d.jobs[t].current_bytes_downloaded[1] ELSE 0]
             current_active_bytes == SumOver(bytes, Downloading(d))
             bytes_diff ==
                 saturating_sub(current_active_bytes, d.last_aggregate_bytes_snapshot)
         IN  [d EXCEPT
                !.current_speed_bps =
                    IF td > 0 /\ bytes_diff > 0
                    THEN (bytes_diff * WindowsPerSecond) \div td
                    ELSE IF Downloading(d) = {} THEN 0
                    ELSE @,
                !.last_speed_update = 1 - @,
                !.last_aggregate_bytes_snapshot = current_active_bytes]
    ELSE d

\* StatusDisplay::build_job_rows: the number of lines of job_output
job_lines(d) == Cardinality({ k \in 1..Len(d.job_order) : d.job_order[k] \in DOMAIN d.jobs })

completed(d) == Cardinality({ t \in DOMAIN d.jobs : d.jobs[t].status = "Success" })
failed(d) == Cardinality({ t \in DOMAIN d.jobs : d.jobs[t].status = "Failed" })

\* StatusDisplay::generate_progress_bar: <<filled, remaining>>, or <<>> for the
\* empty string; remaining is the mathematical difference, negative where the
\* usize subtraction underflows
progress_width == 8
generate_progress_bar(d, n_completed, n_failed) ==
    IF d.total_jobs = 0
    THEN <<>>
    ELSE LET total_done == n_completed + n_failed
             filled == (total_done * progress_width) \div d.total_jobs
         IN  <<filled, progress_width - filled>>

\* the render call panics: `progress_width - filled` underflows (a panic in a
\* debug build; in a release build the wrapped count makes str::repeat panic)
RenderPanics(d) ==
    LET bar == generate_progress_bar(d, completed(d), failed(d))
    IN  bar # <<>> /\ bar[2] < 0

\* StatusDisplay::render, the state it leaves (also when it panics at the end)
render(d, td) ==
    LET d1 == update_speed(d, td) IN
    IF ~d1.header_printed
    THEN [d1 EXCEPT !.header_printed = TRUE,
                    !.last_line_count = 1 + job_lines(d1) + 1 + 1]
    ELSE [d1 EXCEPT !.last_line_count = 1 + job_lines(d1) + 1]

\* what a redraw of d does to the terminal: the lines it erases
\* (clear_previous_output) and the lines it prints (header, rows, separator)
TermAfterRender(d) ==
    [term EXCEPT
       !.erased = IF d.header_printed THEN d.last_line_count ELSE 0,
       !.printed = 1 + job_lines(d) + 1]

MonInit ==
    /\ display = StatusDisplay_new
    /\ logs_buffer = 0
    /\ pipeline_active = FALSE
    /\ mon_pc = "running"
    /\ term = [erased |-> 0, printed |-> 0, summary |-> FALSE]

\* the tail of every job-event arm: the updated display d1 is stored and
\* `if pipeline_active { display.render(); }` runs
StoreAndRender(d1, td) ==
    /\ mon_pc = "running"
    /\ d1.total_bytes <= MaxTotalBytes
    /\ IF pipeline_active
       THEN /\ display' = render(d1, td)
            /\ term' = TermAfterRender(d1)
            /\ mon_pc' = IF RenderPanics(d1) THEN "panicked" ELSE "running"
       ELSE /\ display' = d1
            /\ UNCHANGED <<term, mon_pc>>
    /\ UNCHANGED pipeline_active
    /\ UNCHANGED <<coordVars, fmtVars>>

\* logs_buffer.push(..)
PushLog ==
    /\ logs_buffer < MaxLogs
    /\ logs_buffer' = logs_buffer + 1

\* Ok(PipelineEvent::PipelineStarted { total_jobs })
OnPipelineStarted(total_jobs) ==
    /\ mon_pc = "running"
    /\ pipeline_active' = TRUE
    /\ display' = [display EXCEPT !.total_jobs = total_jobs]
    /\ UNCHANGED <<logs_buffer, mon_pc, term>>
    /\ UNCHANGED <<coordVars, fmtVars>>

\* Ok(PlanningStarted | DependencyResolutionStarted | DependencyResolutionFinished
\*    | PlanningFinished) and the `_ => {}` arm
OnPhaseEvent ==
    /\ mon_pc = "running"
    /\ UNCHANGED monVars
    /\ UNCHANGED <<coordVars, fmtVars>>

\* mutant: a DownloadStarted about a known job puts it back into Downloading
OnDownloadStarted_Overwrites(target_id, td) ==
    /\ StoreAndRender(IF target_id \in DOMAIN display.jobs
                      THEN update_job_status(display, target_id, "Downloading", None)
                      ELSE add_job(display, target_id, "Downloading", None), td)
    /\ UNCHANGED logs_buffer

\* Ok(PipelineEvent::DownloadStarted { target_id, .. })
OnDownloadStarted(target_id, td) ==
    /\ StoreAndRender(add_job(display, target_id, "Downloading", None), td)
    /\ UNCHANGED logs_buffer

\* Ok(PipelineEvent::DownloadFinished { target_id, size_bytes, .. })
OnDownloadFinished(target_id, size_bytes, td) ==
    /\ StoreAndRender(update_job_status(display, target_id, "Downloaded", Some(size_bytes)), td)
    /\ UNCHANGED logs_buffer

\* Ok(PipelineEvent::DownloadProgressUpdate { target_id, bytes_so_far, total_size })
OnDownloadProgressUpdate(target_id, bytes_so_far, total_size, td) ==
    /\ StoreAndRender(update_download_progress(display, target_id, bytes_so_far, total_size), td)
    /\ UNCHANGED logs_buffer

\* Ok(PipelineEvent::DownloadCached { target_id, size_bytes })
OnDownloadCached(target_id, size_bytes, td) ==
    /\ StoreAndRender(update_job_status(display, target_id, "Cached", Some(size_bytes)), td)
    /\ UNCHANGED logs_buffer

\* Ok(PipelineEvent::DownloadFailed { target_id, error, .. })
OnDownloadFailed(target_id, td) ==
    /\ PushLog
    /\ StoreAndRender(update_job_status(display, target_id, "Failed", None), td)

\* Ok(PipelineEvent::JobProcessingStarted { target_id })
OnJobProcessingStarted(target_id, td) ==
    /\ StoreAndRender(update_job_status(display, target_id, "Processing", None), td)
    /\ UNCHANGED logs_buffer

\* Ok(PipelineEvent::BuildStarted { target_id })
OnBuildStarted(target_id, td) ==
    /\ StoreAndRender(update_job_status(display, target_id, "Processing", None), td)
    /\ UNCHANGED logs_buffer

\* Ok(PipelineEvent::InstallStarted { target_id, .. })
OnInstallStarted(target_id, td) ==
    /\ StoreAndRender(update_job_status(display, target_id, "Installing", None), td)
    /\ UNCHANGED logs_buffer

\* Ok(PipelineEvent::LinkStarted { target_id, .. })
OnLinkStarted(target_id, td) ==
    /\ StoreAndRender(update_job_status(display, target_id, "Linking", None), td)
    /\ UNCHANGED logs_buffer

\* Ok(PipelineEvent::JobSuccess { target_id, action, pkg_type })
OnJobSuccess(target_id, td) ==
    /\ PushLog
    /\ StoreAndRender(update_job_status(display, target_id, "Success", None), td)

\* Ok(PipelineEvent::JobFailed { target_id, error, .. })
OnJobFailed(target_id, td) ==
    /\ PushLog
    /\ StoreAndRender(update_job_status(display, target_id, "Failed", None), td)

\* Ok(LogInfo | LogWarn | LogError)
OnLog ==
    /\ mon_pc = "running"
    /\ PushLog
    /\ UNCHANGED <<display, pipeline_active, mon_pc, term>>
    /\ UNCHANGED <<coordVars, fmtVars>>

\* Ok(PipelineEvent::PipelineFinished { .. }): a last redraw when a header was
\* printed, then the summary line and the buffered log lines, then break
OnPipelineFinished(td) ==
    /\ mon_pc = "running"
    /\ IF display.header_printed
       THEN /\ display' = render(display, td)
            /\ IF RenderPanics(display)
               THEN /\ mon_pc' = "panicked"
                    /\ term' = TermAfterRender(display)
               ELSE /\ mon_pc' = "finished"
                    /\ term' = [TermAfterRender(display) EXCEPT !.summary = TRUE]
       ELSE /\ mon_pc' = "finished"
            /\ term' = [term EXCEPT !.summary = TRUE]
            /\ UNCHANGED display
    /\ UNCHANGED <<logs_buffer, pipeline_active>>
    /\ UNCHANGED <<coordVars, fmtVars>>

\* mutant: every tick redraws
OnTick_Always(td) ==
    /\ mon_pc = "running"
    /\ display' = render(display, td)
    /\ term' = TermAfterRender(display)
    /\ mon_pc' = IF RenderPanics(display) THEN "panicked" ELSE "running"
    /\ UNCHANGED <<logs_buffer, pipeline_active>>
    /\ UNCHANGED <<coordVars, fmtVars>>

\* refresh_interval.tick()
OnTick(td) ==
    /\ mon_pc = "running"
    /\ IF pipeline_active /\ display.header_printed
       THEN /\ display' = render(display, td)
            /\ term' = TermAfterRender(display)
            /\ mon_pc' = IF RenderPanics(display) THEN "panicked" ELSE "running"
       ELSE UNCHANGED <<display, term, mon_pc>>
    /\ UNCHANGED <<logs_buffer, pipeline_active>>
    /\ UNCHANGED <<coordVars, fmtVars>>

\* Err(RecvError::Closed)
OnClosed ==
    /\ mon_pc = "running"
    /\ mon_pc' = "closed"
    /\ UNCHANGED <<display, logs_buffer, pipeline_active, term>>
    /\ UNCHANGED <<coordVars, fmtVars>>

\* mutant: an overflow ends the loop like a closed stream
OnLagged_EndsLoop ==
    /\ mon_pc = "running"
    /\ mon_pc' = "closed"
    /\ UNCHANGED <<display, logs_buffer, pipeline_active, term>>
    /\ UNCHANGED <<coordVars, fmtVars>>

\* Err(RecvError::Lagged(_)): the bus overwrote events this receiver had not
\* read; the arm is empty
OnLagged ==
    /\ mon_pc = "running"
    /\ UNCHANGED monVars
    /\ UNCHANGED <<coordVars, fmtVars>>

\* ================================================== formatting functions
\* UNITS of format_bytes and of format_speed, indexed from 0
UNITS_bytes == [k \in 0..3 |-> <<"B", "kB", "MB", "GB">>[k + 1]]
UNITS_speed == [k \in 0..3 |-> <<"B/s", "kB/s", "MB/s", "GB/s">>[k + 1]]

\* 1000^k and 125^k
Pow1000 == [k \in 0..3 |-> <<1, 1000, 1000000, 1000000000>>[k + 1]]
Pow125 == [k \in 0..3 |-> <<1, 125, 15625, 1953125>>[k + 1]]

\* `{:.1}` of the f64 reached by dividing n / d0 (exact) k times by 1000.0,
\* where t = d0 * 1000^k / 10: the tenths nearest to the value.  On a decimal
\* tie the digits of the f64 decide: when the quotient is a binary fraction
\* (125^k divides n) the f64 is the tie itself and the formatter rounds to
\* the even digit; otherwise the f64 lies just above or just below the tie and
\* tie_up says which.
OneDecimal(n, t, k, tie_up) ==
    LET floor_tenths == n \div t
        r == n % t
        up ==
            IF 2 * r > t THEN TRUE
            ELSE IF 2 * r < t THEN FALSE
            ELSE IF n % Pow125[k] = 0 THEN floor_tenths % 2 = 1
            ELSE tie_up
        tenths == IF up THEN floor_tenths + 1 ELSE floor_tenths
    IN  ToString(tenths \div 10) \o "." \o ToString(tenths % 10)

\* the `while value >= 1000.0 && unit_idx < UNITS.len() - 1` loop: the unit
\* index reached from n / d0
UnitIdx(n, d0) == Cardinality({ k \in 1..3 : n >= d0 * Pow1000[k] })

\* mutant: binary unit steps (1024 in place of 1000)
format_bytes_Binary(bytes, tie_up) ==
    LET unit_idx == Cardinality({ k \in 1..2 : bytes >= <<1024, 1048576>>[k] })
    IN  IF unit_idx = 0
        THEN ToString(bytes) \o "B"
        ELSE ToString(bytes \div <<1024, 1048576>>[unit_idx]) \o "." \o "0"
                 \o UNITS_bytes[unit_idx]

\* format_bytes
format_bytes(bytes, tie_up) ==
    LET unit_idx == UnitIdx(bytes, 1)
    IN  IF unit_idx = 0
        THEN ToString(bytes) \o "B"
        ELSE OneDecimal(bytes, Pow1000[unit_idx] \div 10, unit_idx, tie_up)
                 \o UNITS_bytes[unit_idx]

\* format_speed; the f64 argument is halves / 2 bytes per second
format_speed(halves, tie_up) ==
    IF halves < 2
    THEN "0 B/s"
    ELSE LET unit_idx == UnitIdx(halves, 2)
         IN  IF unit_idx = 0
             THEN ToString(halves \div 2) \o "." \o ToString(5 * (halves % 2))
                      \o " " \o UNITS_speed[0]
             ELSE OneDecimal(halves, (2 * Pow1000[unit_idx]) \div 10, unit_idx, tie_up)
                      \o " " \o UNITS_speed[unit_idx]

\* the arguments tried
FmtCentres == {1000, 2000, 4000, 1000000, 1500000, 2000000, 1000000000, 2000000000}
FmtArgs ==
    (0..FmtRadius) \cup UNION { (c - FmtRadius)..(c + FmtRadius) : c \in FmtCentres }

FmtInit ==
    /\ CoordInit
    /\ MonInit
    /\ fmt_fn = "none"
    /\ fmt_arg \in FmtArgs
    /\ fmt_ret = ""

\* format_bytes(fmt_arg) is called
CallFormatBytes ==
    /\ fmt_fn = "none"
    /\ \E tie_up \in BOOLEAN : fmt_ret' = format_bytes(fmt_arg, tie_up)
    /\ fmt_fn' = "format_bytes"
    /\ UNCHANGED <<fmt_arg, coordVars, monVars>>

\* format_speed(fmt_arg / 2) is called
CallFormatSpeed ==
    /\ fmt_fn = "none"
    /\ \E tie_up \in BOOLEAN : fmt_ret' = format_speed(fmt_arg, tie_up)
    /\ fmt_fn' = "format_speed"
    /\ UNCHANGED <<fmt_arg, coordVars, monVars>>

FmtNext ==
    \/ CallFormatBytes
    \/ CallFormatSpeed

FmtSpec == FmtInit /\ [][FmtNext]_vars

\* no formatting function has been called
FmtIdle ==
    /\ fmt_fn = "none"
    /\ fmt_arg = 0
    /\ fmt_ret = ""

Init == CoordInit /\ MonInit /\ FmtIdle

Next ==
    \/ \E jobs \in JobLists : Call(jobs)
    \/ Spawn
    \/ SpawnDone
    \/ \E i \in TaskIds : TaskStart(i)
    \/ \E i \in TaskIds : FetchProgress(i)
    \/ \E i \in TaskIds, was_cached \in BOOLEAN : FetchOk(i, was_cached)
    \/ \E i \in TaskIds : FetchErr(i)
    \/ \E i \in TaskIds : FetchPanic(i)
    \/ \E i \in TaskIds : SendOutcome(i)
    \/ \E i \in TaskIds : SendFailed(i)
    \/ \E i \in TaskIds : JoinNext(i)
    \/ Return
    \/ RxRecv
    \/ RxClose
    \/ BusRecv
    \/ BusUnsubscribe

Spec == Init /\ [][Next]_vars

\* ------------------------------------------------- three planned jobs
\* the planned_jobs arguments of FanSpec: a private-store job, a cask without
\* URL and a bottle download, in every order
FanJobs ==
    { PlannedJob("/store/x", "Cask",    FALSE, "",    "Err", "None", ""),
      PlannedJob("None",     "Cask",    FALSE, "",    "Err", "None", ""),
      PlannedJob("None",     "Formula", FALSE, "src", "btl", "None", "") }

FanJobLists ==
    { l \in [1..3 -> FanJobs] : \A x, y \in 1..3 : l[x] = l[y] => x = y }

FanNext ==
    \/ \E jobs \in FanJobLists : Call(jobs)
    \/ Spawn
    \/ SpawnDone
    \/ \E i \in TaskIds : TaskStart(i)
    \/ \E i \in TaskIds : FetchProgress(i)
    \/ \E i \in TaskIds, was_cached \in BOOLEAN : FetchOk(i, was_cached)
    \/ \E i \in TaskIds : FetchErr(i)
    \/ \E i \in TaskIds : FetchPanic(i)
    \/ \E i \in TaskIds : SendOutcome(i)
    \/ \E i \in TaskIds : SendFailed(i)
    \/ \E i \in TaskIds : JoinNext(i)
    \/ Return
    \/ RxRecv
    \/ RxClose
    \/ BusRecv
    \/ BusUnsubscribe

\* coordinate_downloads called with three jobs
FanSpec == Init /\ [][FanNext]_vars

\* the scheduling of the tokio runtime: a task that can run is run, a fetch
\* that was called returns (or panics), a send that can complete completes,
\* and coordinate_downloads itself proceeds
CoordFairness ==
    /\ WF_vars(Spawn)
    /\ WF_vars(SpawnDone)
    /\ WF_vars(\E i \in TaskIds : TaskStart(i))
    /\ WF_vars(\E i \in TaskIds : FetchOk(i, FALSE) \/ FetchErr(i) \/ FetchPanic(i))
    /\ WF_vars(\E i \in TaskIds : SendOutcome(i) \/ SendFailed(i))
    /\ WF_vars(\E i \in TaskIds : JoinNext(i))
    /\ WF_vars(Return)

\* coordinate_downloads called with three jobs, under fair scheduling
LiveSpec == Init /\ [][FanNext]_vars /\ CoordFairness

MonNext ==
    \/ OnPipelineStarted(Cardinality(TargetIds))
    \/ OnPhaseEvent
    \/ \E t \in TargetIds, td \in TimeSamples : OnDownloadStarted(t, td)
    \/ \E t \in TargetIds, n \in Sizes, td \in TimeSamples : OnDownloadFinished(t, n, td)
    \/ \E t \in TargetIds, n \in MonProgressBytes, total \in OptSizes, td \in TimeSamples :
           OnDownloadProgressUpdate(t, n, total, td)
    \/ \E t \in TargetIds, n \in Sizes, td \in TimeSamples : OnDownloadCached(t, n, td)
    \/ \E t \in TargetIds, td \in TimeSamples : OnDownloadFailed(t, td)
    \/ \E t \in TargetIds, td \in TimeSamples : OnJobProcessingStarted(t, td)
    \/ \E t \in TargetIds, td \in TimeSamples : OnBuildStarted(t, td)
    \/ \E t \in TargetIds, td \in TimeSamples : OnInstallStarted(t, td)
    \/ \E t \in TargetIds, td \in TimeSamples : OnLinkStarted(t, td)
    \/ \E t \in TargetIds, td \in TimeSamples : OnJobSuccess(t, td)
    \/ \E t \in TargetIds, td \in TimeSamples : OnJobFailed(t, td)
    \/ OnLog
    \/ \E td \in TimeSamples : OnPipelineFinished(td)
    \/ \E td \in TimeSamples : OnTick(td)
    \/ OnClosed
    \/ OnLagged

MonSpec == Init /\ [][MonNext]_vars

\* the byte counts RenderSpec delivers: the redraw does not depend on them
RenderSizes == {MaxSize}

\* handle_events with any total_jobs in PipelineStarted
RenderNext ==
    \/ \E total_jobs \in 0..MaxTotalJobs : OnPipelineStarted(total_jobs)
    \/ OnPhaseEvent
    \/ \E t \in TargetIds, td \in TimeSamples : OnDownloadStarted(t, td)
    \/ \E t \in TargetIds, n \in RenderSizes, td \in TimeSamples : OnDownloadFinished(t, n, td)
    \/ \E t \in TargetIds, n \in MonProgressBytes, td \in TimeSamples :
           OnDownloadProgressUpdate(t, n, None, td)
    \/ \E t \in TargetIds, n \in RenderSizes, td \in TimeSamples : OnDownloadCached(t, n, td)
    \/ \E t \in TargetIds, td \in TimeSamples : OnDownloadFailed(t, td)
    \/ \E t \in TargetIds, td \in TimeSamples : OnJobProcessingStarted(t, td)
    \/ \E t \in TargetIds, td \in TimeSamples : OnBuildStarted(t, td)
    \/ \E t \in TargetIds, td \in TimeSamples : OnInstallStarted(t, td)
    \/ \E t \in TargetIds, td \in TimeSamples : OnLinkStarted(t, td)
    \/ \E t \in TargetIds, td \in TimeSamples : OnJobSuccess(t, td)
    \/ \E t \in TargetIds, td \in TimeSamples : OnJobFailed(t, td)
    \/ OnLog
    \/ \E td \in TimeSamples : OnPipelineFinished(td)
    \/ \E td \in TimeSamples : OnTick(td)
    \/ OnClosed
    \/ OnLagged

RenderSpec == Init /\ [][RenderNext]_vars

\* the times since the last speed sample, in windows, SpeedSpec redraws at
SpeedTimeSamples == {0, 1, 2}

\* handle_events during the download phase of a run: the events the download
\* coordinator emits, the timer, and the start and end of the pipeline, with
\* redraws before and after the speed window has elapsed.
SpeedNext ==
    \/ OnPipelineStarted(Cardinality(TargetIds))
    \/ \E t \in TargetIds, td \in SpeedTimeSamples : OnDownloadStarted(t, td)
    \/ \E t \in TargetIds, n \in RenderSizes, td \in SpeedTimeSamples :
           OnDownloadFinished(t, n, td)
    \/ \E t \in TargetIds, n \in Sizes, td \in SpeedTimeSamples :
           OnDownloadProgressUpdate(t, n, None, td)
    \/ \E t \in TargetIds, n \in RenderSizes, td \in SpeedTimeSamples :
           OnDownloadCached(t, n, td)
    \/ \E t \in TargetIds, td \in SpeedTimeSamples : OnDownloadFailed(t, td)
    \/ \E td \in SpeedTimeSamples : OnPipelineFinished(td)
    \/ \E td \in SpeedTimeSamples : OnTick(td)
    \/ OnClosed
    \/ OnLagged

SpeedSpec == Init /\ [][SpeedNext]_vars

\* ===================================================== coordinator claims
Panicked == { i \in TaskIds : tasks[i].pc = "panicked" }
SentOk == { i \in TaskIds : sent_ok[i] }
SendLost == { i \in TaskIds : tasks[i].pc = "done" /\ ~sent_ok[i] }

\* occurrences of task i's outcome in the channel and at the downstream stage
OutcomesOf(i) ==
    { k \in 1..Len(outcome_chan) : outcome_chan[k].target_id = i }
OutcomeCount(i) ==
    Cardinality(OutcomesOf(i)) + Cardinality({ o \in received : o.target_id = i })
OutcomeResults(i) ==
    { outcome_chan[k].result : k \in OutcomesOf(i) }
        \cup { o.result : o \in { r \in received : r.target_id = i } }

\* C1 as stated: when coordinate_downloads has returned, the outcomes sent
\* successfully plus the panic entries of the returned list number the jobs.
C1_SentPlusPanicsIsJobs ==
    co_pc = "returned" =>
        Cardinality(SentOk) + Len(critical_spawn_errors) = Len(planned_jobs)

\* C1 amended: when coordinate_downloads has returned, the outcomes sent
\* successfully, plus the panic entries of the returned list, plus the tasks
\* whose send returned an error because the receiver was gone, number the jobs.
C1_SentPanicsLostIsJobs ==
    co_pc = "returned" =>
        Cardinality(SentOk) + Len(critical_spawn_errors) + Cardinality(SendLost)
            = Len(planned_jobs)

C1_Witness ==
    /\ co_pc = "returned"
    /\ Len(planned_jobs) = 2
    /\ Cardinality(Panicked) = 1
    /\ Cardinality(SentOk) = 1

\* C6: a job with a private-store override hands no Download* event to the
\* bus, never invokes a fetch, and its one outcome is Ok(the override path).
C6_PrivateStoreBypass ==
    \A i \in TaskIds :
        LET job == tasks[i].job IN
        job.use_private_store_source # "None" =>
            /\ emitted[i] = <<>>
            /\ tasks[i].fetch = "none"
            /\ tasks[i].pc \in {"start", "send", "done"}
            /\ tasks[i].pc # "start" =>
                   tasks[i].result = <<"Ok", job.use_private_store_source>>
            /\ OutcomeCount(i) = (IF sent_ok[i] THEN 1 ELSE 0)
            /\ OutcomeResults(i) \subseteq { <<"Ok", job.use_private_store_source>> }

C6_Witness ==
    \E i \in TaskIds :
        /\ tasks[i].job.use_private_store_source # "None"
        /\ tasks[i].pc = "done"
        /\ \E o \in received : o.target_id = i

\* the jobs C7 is about, read off the job itself
C7_FailsValidation(job) ==
    /\ job.use_private_store_source = "None"
    /\ \/ job.target = "Cask" /\ job.cask_url = "None"
       \/ ~job.is_source_build /\ DisplayUrl(job) = ""

\* C7: a job without override whose URL fails validation hands exactly one
\* DownloadFailed to the bus and nothing else, invokes no fetch, and hands
\* one outcome with an Err result to the outcome channel.
C7_ValidationFailure ==
    \A i \in TaskIds :
        C7_FailsValidation(tasks[i].job) =>
            /\ tasks[i].fetch = "none"
            /\ tasks[i].pc \in {"start", "send", "done"}
            /\ tasks[i].pc = "start" => emitted[i] = <<>>
            /\ tasks[i].pc # "start" =>
                   /\ emitted[i] = <<"DownloadFailed">>
                   /\ tasks[i].result[1] = "Err"
            /\ OutcomeCount(i) = (IF sent_ok[i] THEN 1 ELSE 0)
            /\ \A r \in OutcomeResults(i) : r[1] = "Err"

C7_Witness ==
    \E i \in TaskIds :
        /\ C7_FailsValidation(tasks[i].job)
        /\ tasks[i].job.target = "Cask"
        /\ tasks[i].pc = "done"
        /\ \E o \in received : o.target_id = i /\ o.result[1] = "Err"

\* C8: the returned list holds one entry per task that ended by panic and
\* none for a job that failed logically; it is empty when no task panicked.
C8_OnlyPanicsReturned ==
    /\ Len(critical_spawn_errors) = Cardinality(Panicked \cap joined)
    /\ \A k \in 1..Len(critical_spawn_errors) :
           critical_spawn_errors[k] = "[UnknownDownloadTaskPanic]"
    /\ co_pc = "returned" =>
           /\ Len(critical_spawn_errors) = Cardinality(Panicked)
           /\ (Panicked = {} => critical_spawn_errors = <<>>)

C8_Witness ==
    /\ co_pc = "returned"
    /\ Cardinality(Panicked) = 1
    /\ \E i \in TaskIds : tasks[i].pc = "done" /\ tasks[i].result[1] = "Err"

\* DownloadStarted, then n DownloadProgressUpdate
StartedThenProgress(n) ==
    [k \in 1..(n + 1) |-> IF k = 1 THEN "DownloadStarted" ELSE "DownloadProgressUpdate"]

FinalKinds == {"DownloadFinished", "DownloadCached", "DownloadFailed"}

\* C9: for a job that passes validation and does not panic the events are
\* DownloadStarted, then progress updates, then exactly one of
\* DownloadFinished / DownloadCached / DownloadFailed; the outcome is sent
\* only after that last event, is Ok exactly when the last event is
\* DownloadFinished or DownloadCached, and nothing is emitted afterwards.
C9_EventOrder ==
    \A i \in TaskIds :
        LET job == tasks[i].job
            ev  == emitted[i]
        IN  (job.use_private_store_source = "None" /\ ~C7_FailsValidation(job)
                /\ tasks[i].pc # "panicked") =>
            /\ tasks[i].pc = "start" => ev = <<>>
            /\ tasks[i].pc = "fetching" => ev = StartedThenProgress(tasks[i].progress)
            /\ tasks[i].pc \in {"send", "done"} =>
                   /\ Len(ev) >= 2
                   /\ SubSeq(ev, 1, Len(ev) - 1) = StartedThenProgress(Len(ev) - 2)
                   /\ ev[Len(ev)] \in FinalKinds
                   /\ (tasks[i].result[1] = "Ok")
                          <=> (ev[Len(ev)] \in {"DownloadFinished", "DownloadCached"})
            /\ OutcomeCount(i) > 0 => sent_ok[i]
            /\ sent_ok[i] => tasks[i].pc = "done"

C9_Witness ==
    \E i \in TaskIds :
        /\ tasks[i].pc = "done"
        /\ sent_ok[i]
        /\ emitted[i] = <<"DownloadStarted", "DownloadProgressUpdate", "DownloadCached">>

\* what the job's result must be, read off the job and its fetch alone
ExpectedResult(i) ==
    LET job == tasks[i].job IN
    IF job.use_private_store_source # "None"
    THEN <<"Ok", job.use_private_store_source>>
    ELSE IF C7_FailsValidation(job) THEN <<"Err", "Generic">>
    ELSE IF tasks[i].fetch = "ok" THEN <<"Ok", "/cache/path">>
    ELSE <<"Err", "Transport">>

\* C10: whatever the bus holds (no subscriber, or a full ring nobody reads)
\* a task at an emitting step can take it, the send of its outcome waits for
\* the outcome channel alone, and its result is the one its job and fetch give.
C10_BusNeverBlocks ==
    \A i \in TaskIds :
        /\ tasks[i].pc = "start" => ENABLED TaskStart(i)
        /\ tasks[i].pc = "fetching" =>
               /\ ENABLED FetchOk(i, FALSE)
               /\ ENABLED FetchErr(i)
               /\ tasks[i].progress < MaxProgress => ENABLED FetchProgress(i)
        /\ (tasks[i].pc = "send" /\ rx_open /\ Len(outcome_chan) < OutcomeCap)
               => ENABLED SendOutcome(i)
        /\ tasks[i].pc \in {"send", "done"} => tasks[i].result = ExpectedResult(i)

C10_Witness ==
    /\ bus_lagged
    /\ subscribers = 0
    /\ \E i \in TaskIds :
           /\ sent_ok[i]
           /\ tasks[i].fetch = "ok"
           /\ Len(emitted[i]) >= 2
    /\ \E i \in TaskIds : tasks[i].pc = "fetching" /\ tasks[i].progress = MaxProgress

\* tasks waiting in outcome_tx_clone.send(outcome).await on a full channel
BlockedOnSend ==
    { j \in TaskIds : tasks[j].pc = "send" /\ rx_open /\ Len(outcome_chan) >= OutcomeCap }

\* task i can take a step of its own
TaskCanStep(i) ==
    \/ ENABLED TaskStart(i)
    \/ ENABLED FetchOk(i, FALSE)
    \/ ENABLED SendOutcome(i)
    \/ ENABLED SendFailed(i)

\* C11: every job is spawned whatever the tasks already running do (no
\* concurrency cap); while tasks wait on the full outcome channel every other
\* task can resolve its URL, emit its events and complete its fetch; the only
\* unfinished tasks that cannot step are those waiting in the send.
C11_BlockedSendHoldsOnlySender ==
    /\ (co_pc = "spawning" /\ Len(tasks) < Len(planned_jobs)) => ENABLED Spawn
    /\ \A i \in TaskIds :
           /\ tasks[i].pc = "start" => ENABLED TaskStart(i)
           /\ tasks[i].pc = "fetching" =>
                  /\ ENABLED FetchOk(i, FALSE)
                  /\ ENABLED FetchErr(i)
                  /\ tasks[i].progress < MaxProgress => ENABLED FetchProgress(i)
           /\ (tasks[i].pc \notin {"done", "panicked"} /\ ~TaskCanStep(i))
                  => i \in BlockedOnSend

C11_Witness ==
    /\ Len(tasks) = 3
    /\ \E j \in BlockedOnSend, i \in TaskIds :
           /\ tasks[i].pc = "fetching"
           /\ tasks[i].progress = MaxProgress
           /\ emitted[i] = StartedThenProgress(MaxProgress)
    /\ \E k \in TaskIds : sent_ok[k]

\* a step in which the downstream stage neither receives nor drops its receiver
\* leaves every task waiting on the full channel where it is, and
\* coordinate_downloads does not return in it
C12_StallStep ==
    \A i \in BlockedOnSend :
        (outcome_chan' = outcome_chan /\ rx_open' = rx_open)
            => (tasks'[i].pc = "send" /\ co_pc' # "returned")

\* C12: when the downstream stage keeps receiving (and every fetch ends, tasks
\* are scheduled fairly) a call of coordinate_downloads eventually returns
\* with every task ended; and as long as the downstream stage neither
\* receives nor closes, the tasks waiting on the full channel stay blocked and
\* coordinate_downloads does not return.
C12_ReturnsIffDrained ==
    /\ WF_vars(RxRecv) =>
           (co_pc = "spawning" ~>
               (co_pc = "returned" /\ \A i \in TaskIds : tasks[i].pc \in {"done", "panicked"}))
    /\ [][C12_StallStep]_vars

C12_Witness ==
    /\ co_pc = "returned"
    /\ rx_open
    /\ Len(planned_jobs) > OutcomeCap
    /\ Cardinality(SentOk) = Len(planned_jobs)
    /\ Cardinality(received) >= Len(planned_jobs) - OutcomeCap

\* a step in which task i's send of its outcome fails
C24_FailedSendStep(i) ==
    SendFailed(i) =>
        /\ tasks'[i].pc = "done"
        /\ ~sent_ok'[i]
        /\ critical_spawn_errors' = critical_spawn_errors
        /\ \A j \in TaskIds \ {i} : tasks'[j] = tasks[j] /\ sent_ok'[j] = sent_ok[j]
        /\ UNCHANGED <<outcome_chan, received, emitted, bus_buf, joined, co_pc, event_tx>>

\* C24: a task whose send on the outcome channel fails because the receiver
\* is gone ends normally; its outcome never reaches the channel or the
\* downstream stage, the returned list holds entries for panicked fetches
\* only, no sibling task is changed by the failed send, and
\* coordinate_downloads still returns.
C24_SendFailureLosesOnlyTheJob ==
    /\ [][\A i \in TaskIds : C24_FailedSendStep(i)]_vars
    /\ [](\A i \in SendLost : i \notin Panicked /\ OutcomeCount(i) = 0)
    /\ [](co_pc = "returned" =>
             Len(critical_spawn_errors) =
                 Cardinality({ i \in TaskIds : tasks[i].fetch = "panic" }))
    /\ (SendLost # {}) ~> (co_pc = "returned")

C24_Witness ==
    /\ co_pc = "returned"
    /\ SendLost # {}
    /\ SentOk # {}
    /\ critical_spawn_errors = <<>>
    /\ \E i \in SendLost : tasks[i].fetch = "ok"

\* ========================================================= monitor claims
Known == DOMAIN display.jobs

\* the sum of size_bytes over the known jobs that have a size
SizeSum(d) ==
    LET sized == { t \in DOMAIN d.jobs : IsSome(d.jobs[t].size_bytes) }
    IN  SumOver([t \in sized |-> d.jobs[t].size_bytes[1]], sized)

\* C2 as stated: in every Monitor state total_bytes is the sum of size_bytes
\* over the known jobs that have a size.
C2_TotalBytesIsSizeSum ==
    display.total_bytes = SizeSum(display)

\* C3: in every Monitor state active_downloads is exactly the set of target
\* ids whose JobInfo has status Downloading.
C3_ActiveIsDownloading ==
    display.active_downloads = Downloading(display)

C3_Witness ==
    /\ \E t \in Known : display.jobs[t].status = "Downloading"
    /\ \E t \in Known : display.jobs[t].status = "Failed"
    /\ display.active_downloads # {}

C4_State ==
    /\ display.next_pool_id = Cardinality(Known) + 1
    /\ Len(display.job_order) = Cardinality(Known)
    /\ \A k \in 1..Len(display.job_order) :
           /\ display.job_order[k] \in Known
           /\ display.jobs[display.job_order[k]].pool_id = k
    /\ { display.jobs[t].pool_id : t \in Known } = 1..Cardinality(Known)

C4_Step ==
    /\ Known \subseteq DOMAIN display'.jobs
    /\ \A t \in Known : display'.jobs[t].pool_id = display.jobs[t].pool_id

\* C4: the pool ids of the known jobs are exactly 1..N without gaps, the i-th
\* job of job_order has pool id i, next_pool_id is N+1, and no step removes a
\* JobInfo or changes an assigned pool id.
C4_PoolIds ==
    []C4_State /\ [][C4_Step]_vars

C4_Witness ==
    /\ display.job_order = <<"b", "a">>
    /\ display.jobs["b"].pool_id = 1
    /\ display.jobs["a"].pool_id = 2
    /\ display.jobs["b"].status = "Success"
    /\ display.jobs["a"].status = "Downloaded"

Recorded(d, t, status) == t \in DOMAIN d.jobs /\ d.jobs[t].status = status

\* C5 as stated: whichever earlier events of a job the bus dropped (its
\* DownloadStarted included), handling the job's terminal event (JobSuccess,
\* JobFailed, DownloadFailed) does not crash the Monitor and leaves the job
\* recorded with the corresponding terminal status.
C5_TerminalStatusRecorded ==
    [][\A t \in TargetIds :
          /\ (\E td \in TimeSamples : OnJobSuccess(t, td))
                 => (mon_pc' # "panicked" /\ Recorded(display', t, "Success"))
          /\ (\E td \in TimeSamples : OnJobFailed(t, td) \/ OnDownloadFailed(t, td))
                 => (mon_pc' # "panicked" /\ Recorded(display', t, "Failed"))]_vars

\* C13 as stated: when the event stream reports closed the loop ends after
\* writing the final summary (last redraw, summary line, buffered log lines),
\* as it does on PipelineFinished.
C13_ClosedFlushesSummary ==
    mon_pc = "closed" => term.summary

\* C14 as stated: whatever total_jobs was announced and however many jobs
\* reach Success or Failed, no redraw raises an error (the filled cells of the
\* progress bar never exceed its width).
C14_RenderNeverPanics ==
    mon_pc # "panicked"

\* the status a status-changing event about t denotes, when the step is one
C18_Denotes(t, status) ==
    \E td \in TimeSamples, n \in Sizes :
        \/ status = "Downloading" /\ OnDownloadStarted(t, td)
        \/ status = "Downloaded" /\ OnDownloadFinished(t, n, td)
        \/ status = "Cached" /\ OnDownloadCached(t, n, td)
        \/ status = "Failed" /\ (OnDownloadFailed(t, td) \/ OnJobFailed(t, td))
        \/ status = "Processing" /\ (OnJobProcessingStarted(t, td) \/ OnBuildStarted(t, td))
        \/ status = "Installing" /\ OnInstallStarted(t, td)
        \/ status = "Linking" /\ OnLinkStarted(t, td)
        \/ status = "Success" /\ OnJobSuccess(t, td)

JobStatuses ==
    {"Downloading", "Downloaded", "Cached", "Failed", "Processing", "Installing",
     "Linking", "Success"}

\* the step handles a DownloadProgressUpdate about t
ProgressEvent(t) ==
    \E td \in TimeSamples, n \in MonProgressBytes, total \in OptSizes :
        OnDownloadProgressUpdate(t, n, total, td)

\* the step handles a job-scoped event about t
JobEvent(t) ==
    \/ \E status \in JobStatuses : C18_Denotes(t, status)
    \/ ProgressEvent(t)

\* C17 as stated: every job-scoped event that is the first reference to a
\* target_id creates the job's JobInfo with the next sequential pool id.
C17_FirstReferenceCreates ==
    [][\A t \in TargetIds :
          (t \notin Known /\ JobEvent(t)) =>
              /\ t \in DOMAIN display'.jobs
              /\ display'.jobs[t].pool_id = display.next_pool_id]_vars

\* C18 as stated: for a job the Monitor knows, every status-changing event
\* (a duplicate or late DownloadStarted included) leaves the job with the
\* status the event denotes, whatever its status was.
C18_LaterEventOverwrites ==
    [][\A t \in Known, status \in JobStatuses :
          C18_Denotes(t, status) => display'.jobs[t].status = status]_vars

\* the jobs a step moves out of Downloading
Leaving ==
    { t \in Known : display.jobs[t].status = "Downloading"
                     /\ display'.jobs[t].status # "Downloading" }

\* C19: a step that moves a job out of Downloading removes it from
\* active_downloads and adds to downloaded_bytes exactly the size the job has
\* after the event (nothing when it has none); every other step leaves
\* downloaded_bytes alone; a DownloadProgressUpdate changes no status, nor
\* active_downloads, nor downloaded_bytes.
C19_LeavingRollsSize ==
    [][/\ \A t \in Leaving : t \notin display'.active_downloads
       /\ display'.downloaded_bytes = display.downloaded_bytes +
              SumOver([t \in Leaving |->
                          IF IsSome(display'.jobs[t].size_bytes)
                          THEN display'.jobs[t].size_bytes[1] ELSE 0], Leaving)
       /\ \/ /\ \A u \in Known : display'.jobs[u].status = display.jobs[u].status
             /\ display'.active_downloads = display.active_downloads
             /\ display'.downloaded_bytes = display.downloaded_bytes
          \/ \A t \in TargetIds : ~ProgressEvent(t)]_vars

C19_Witness ==
    /\ display.downloaded_bytes = MaxSize
    /\ display.active_downloads = {}
    /\ \E t \in Known :
           display.jobs[t].status = "Failed" /\ ~IsSome(display.jobs[t].size_bytes)
    /\ \E t \in Known :
           display.jobs[t].status = "Downloaded" /\ display.jobs[t].size_bytes = Some(MaxSize)

\* the step redraws: a job-scoped event while the pipeline is active, a timer
\* tick while it is active, or PipelineFinished
RedrawStep ==
    \/ pipeline_active /\ \E t \in TargetIds : JobEvent(t)
    \/ pipeline_active /\ \E td \in TimeSamples : OnTick(td)
    \/ \E td \in TimeSamples : OnPipelineFinished(td)

\* C20 as stated: every redraw after the first (the second one and the last
\* one on PipelineFinished included) erases exactly the lines the previous
\* redraw printed: header, one row per job then known, separator.
C20_ErasesWhatWasPrinted ==
    [][(display.header_printed /\ RedrawStep) => term'.erased = term.printed]_vars

\* C21: a timer tick redraws only when the pipeline was marked started and a
\* redraw has already happened; any other tick leaves the Monitor state and
\* the terminal untouched; and in every state header_printed implies
\* pipeline_active.
C21_TickRedrawsOnlyWhenStarted ==
    /\ [](display.header_printed => pipeline_active)
    /\ [][\A td \in TimeSamples :
             (OnTick(td) /\ ~(pipeline_active /\ display.header_printed))
                 => UNCHANGED monVars]_vars

C21_Witness ==
    /\ pipeline_active
    /\ display.header_printed
    /\ mon_pc = "running"
    /\ term.printed = 2 + Cardinality(TargetIds)
    /\ term.erased = term.printed
    /\ ENABLED (\E td \in TimeSamples : OnTick(td))

\* C22: handling an overflow of the event stream changes no field of the
\* Monitor state (display, log buffer, pipeline_active), redraws nothing and
\* leaves the loop running, so that later events are still handled.
C22_LaggedIsIgnored ==
    [][OnLagged =>
          /\ UNCHANGED <<display, logs_buffer, pipeline_active, term>>
          /\ mon_pc' = "running"]_vars

C22_Witness ==
    /\ mon_pc = "running"
    /\ pipeline_active
    /\ display.header_printed
    /\ logs_buffer > 0
    /\ display.active_downloads # {}
    /\ ENABLED OnLagged

\* the bytes update_speed sums over the jobs of d that are Downloading
ActiveBytes(d) ==
    SumOver([t \in Downloading(d) |->
                IF IsSome(d.jobs[t].current_bytes_downloaded)
                THEN d.jobs[t].current_bytes_downloaded[1] ELSE 0], Downloading(d))

\* what C23 says of a redraw that takes d to d2, td windows after the last sample
C23_Sample(d, d2, td) ==
    LET delta == ActiveBytes(d) - d.last_aggregate_bytes_snapshot IN
    IF td >= 1
    THEN /\ delta > 0 => d2.current_speed_bps * td = delta * WindowsPerSecond
         /\ (delta <= 0 /\ Downloading(d) # {}) =>
                d2.current_speed_bps = d.current_speed_bps
         /\ Downloading(d) = {} => d2.current_speed_bps = 0
         /\ d2.last_aggregate_bytes_snapshot = ActiveBytes(d)
         /\ d2.last_speed_update # d.last_speed_update
    ELSE /\ d2.current_speed_bps = d.current_speed_bps
         /\ d2.last_aggregate_bytes_snapshot = d.last_aggregate_bytes_snapshot
         /\ d2.last_speed_update = d.last_speed_update

\* a redraw of d1 by a job event (render leaves the jobs of d1 as they are)
C23_Redraw(d1) ==
    (pipeline_active /\ display'.jobs = d1.jobs) =>
        \A td \in SpeedTimeSamples :
            StoreAndRender(d1, td) => C23_Sample(d1, display', td)

\* C23: on a redraw (by a job event, a timer tick or PipelineFinished) taken
\* when the window has elapsed, the rate becomes delta bytes over delta time
\* when the bytes of the downloading jobs grew, is kept when they did not and
\* some job is Downloading, and is zero when no job is Downloading; on a redraw
\* taken earlier the rate, the snapshot and the sample time are unchanged.
C23_SpeedEstimate ==
    [][/\ \A td \in SpeedTimeSamples :
             (display.header_printed /\ (OnPipelineFinished(td) \/ (pipeline_active /\ OnTick(td))))
                 => C23_Sample(display, display', td)
       /\ \A t \in TargetIds :
             /\ C23_Redraw(add_job(display, t, "Downloading", None))
             /\ C23_Redraw(update_job_status(display, t, "Failed", None))
             /\ \A n \in RenderSizes :
                   /\ C23_Redraw(update_job_status(display, t, "Downloaded", Some(n)))
                   /\ C23_Redraw(update_job_status(display, t, "Cached", Some(n)))
             /\ \A n \in Sizes :
                   C23_Redraw(update_download_progress(display, t, n, None))]_vars

C23_Witness ==
    /\ display.current_speed_bps * 2 = MaxSize * WindowsPerSecond
    /\ display.last_aggregate_bytes_snapshot = 0
    /\ ActiveBytes(display) = 0
    /\ Downloading(display) # {}
    /\ \E t \in Known : display.jobs[t].status = "Downloaded"

\* C25 as stated: in every reachable state of the monitor downloaded_bytes
\* does not exceed total_bytes.
C25_DownloadedWithinTotal ==
    display.downloaded_bytes <= display.total_bytes

\* what a step does to the job t with respect to Downloading
C26_Step(t) ==
    /\ t \in Known => t \in DOMAIN display'.jobs
    /\ (t \in Known /\ display.jobs[t].status # "Downloading")
           => display'.jobs[t].status # "Downloading"
    /\ (t \notin Known /\ t \in DOMAIN display'.jobs)
           => /\ display'.jobs[t].status = "Downloading"
              /\ \E td \in TimeSamples : OnDownloadStarted(t, td)
    /\ (t \in Known /\ display'.jobs[t].status # display.jobs[t].status)
           => \E status \in JobStatuses \ {"Downloading"} : C18_Denotes(t, status)

\* C26: a job is created by a DownloadStarted event only, in Downloading; a
\* known job is never removed and never moved into Downloading, and its status
\* changes only by a status-changing event other than DownloadStarted; so
\* the jobs that left Downloading bound what was added to downloaded_bytes,
\* one size each.
C26_DownloadingOnlyOnce ==
    /\ [][\A t \in TargetIds : C26_Step(t)]_vars
    /\ [](display.downloaded_bytes <= MaxSize * Cardinality(Known \ Downloading(display)))

C26_Witness ==
    \E t \in Known, u \in Known :
        /\ display.jobs[t].status = "Downloaded"
        /\ display.jobs[t].size_bytes = Some(MaxSize)
        /\ display.jobs[t].pool_id = 1
        /\ display.jobs[u].status = "Downloading"
        /\ display.jobs[u].pool_id = 2
        /\ display.downloaded_bytes = MaxSize

\* ================================================== formatting claims
\* the unit format_bytes must use for a value of at least 1000
C15_Unit(bytes) ==
    IF bytes < 1000000 THEN 1 ELSE IF bytes < 1000000000 THEN 2 ELSE 3

\* C15: format_bytes prints a value below 1000 as the bare integer followed
\* by "B"; a larger value with one decimal digit in the largest of kB, MB, GB
\* it reaches by steps of 1000, the printed number being the value rounded to
\* a tenth of that unit; 999 gives "999B", 1000 "1.0kB", 1500000 "1.5MB".
C15_FormatBytes ==
    fmt_fn = "format_bytes" =>
        /\ fmt_arg < 1000 => fmt_ret = ToString(fmt_arg) \o "B"
        /\ fmt_arg >= 1000 =>
               LET k == C15_Unit(fmt_arg)
                   t == Pow1000[k] \div 10
                   q == fmt_arg \div t
               IN  \E tenths \in q..(q + 1) :
                       /\ 2 * (fmt_arg - tenths * t) <= t
                       /\ 2 * (tenths * t - fmt_arg) <= t
                       /\ fmt_ret = ToString(tenths \div 10) \o "." \o ToString(tenths % 10)
                                        \o <<"kB", "MB", "GB">>[k]
        /\ fmt_arg = 999 => fmt_ret = "999B"
        /\ fmt_arg = 1000 => fmt_ret = "1.0kB"
        /\ fmt_arg = 1500000 => fmt_ret = "1.5MB"

C15_Witness ==
    /\ fmt_fn = "format_bytes"
    /\ fmt_arg = 1500000
    /\ fmt_ret = "1.5MB"

\* C16 as stated: format_speed returns "0 B/s" for every rate below 1 byte
\* per second and "2.0kB/s" for 2000 bytes per second.
C16_FormatSpeed ==
    fmt_fn = "format_speed" =>
        /\ fmt_arg < 2 => fmt_ret = "0 B/s"
        /\ fmt_arg = 4000 => fmt_ret = "2.0kB/s"

====
